---- MODULE Spec2Model ----
(***************************************************************************)
(* OBD2Calculations.h: eight decoders CalcX(pData) that read bytes 4 and 5 *)
(* of a response frame, store the decoded quantity in a file-level static  *)
(* g_X and return it, and eight PrintX() that format g_X on the serial     *)
(* port.                                                                   *)
(*                                                                         *)
(* Number representation.  int32_t values are TLA+ integers (every value   *)
(* computed here is below 2^17 in magnitude, so no int32 operation wraps). *)
(* The three float32 computations of the file are carried in exact tenths: *)
(*   B / 10.0f                       is the tenths value  B                *)
(*   float(c)*9.0f/5.0f+32.0f+0.5f   is the tenths value  18*c + 325       *)
(* The float32 result is the nearest float to that decimal; its error is   *)
(* below 1e-4 while the decimal is never closer than 0.1 to an integer     *)
(* unless it is one exactly (and then the float operations are exact), so  *)
(* the float -> int32 conversion and the "%.1f" rendering of the float     *)
(* equal those of the decimal for every c in -40 .. 255, B in 0 .. 255.    *)
(***************************************************************************)
EXTENDS Integers, Sequences, FiniteSets, TLC

VARIABLES
  g_EngineRPM,            \* static int32_t, line 8
  g_Gear,                 \* static int32_t, line 27
  g_EngineOilTemp,        \* static int32_t, line 66
  g_BatteryIBS,           \* static int32_t, line 85
  g_Battery,              \* static float, line 103; held in tenths of a Volt
  g_AtmosphericPressure,  \* static int32_t, line 121
  g_BoostPressure,        \* static int32_t, line 140
  g_ExternalTemp,         \* static int32_t, line 159
  ret,        \* what the most recent sequential CalcX call returned
  out,        \* the most recent Serial.printf of a sequential PrintX call
  oob,        \* TRUE once a load went past the end of the caller's buffer
  thr,        \* the threads of the concurrent specification
  pool,       \* the frames the caller can pass in this behaviour
  budget,     \* how many operations the caller performs in this behaviour
  nops,       \* history: operations performed so far
  lastOp,     \* history: the most recent operation and its argument
  lastFrame,  \* history: per decoder, the frame it decoded most recently
  memo        \* history: per (decoder, frame), what its first call produced

globals == <<g_EngineRPM, g_Gear, g_EngineOilTemp, g_BatteryIBS, g_Battery,
             g_AtmosphericPressure, g_BoostPressure, g_ExternalTemp>>

vars == <<g_EngineRPM, g_Gear, g_EngineOilTemp, g_BatteryIBS, g_Battery,
          g_AtmosphericPressure, g_BoostPressure, g_ExternalTemp,
          ret, out, oob, thr, pool, budget, nops, lastOp, lastFrame, memo>>

----------------------------------------------------------------------------
(* Bounds of the model.                                                    *)

\* Operations per behaviour of the sequential specification.
MaxOps == 3

\* Operations per behaviour when the caller passes frames that are too short.
ShortOps == 1

\* Threads of the concurrent specification.
NumThreads == 2

----------------------------------------------------------------------------
(* Values.                                                                 *)

\* uint8_t
Byte == 0 .. 255

\* const uint8_t neutral = 0;
neutral == 0

\* const uint8_t reverse = 0x10;
reverse == 16

Decoders == {"CalcEngineRPM", "CalcGear", "CalcEngineOilTemp", "CalcBatteryIBS",
             "CalcBattery", "CalcAtmosphericPressure", "CalcBoostPressure",
             "CalcExternalTemp"}

\* A frame whose operand bytes are A and B; bytes 0 .. 3 belong to the
\* transport and are never loaded by this file.
MkFrame(A, B) == <<0, 0, 0, 0, A, B>>

AllFrames == {MkFrame(A, B) : A \in Byte, B \in Byte}

\* Frames of the sequential specification: reverse, neutral, a forward gear,
\* the odd temperature byte 79, the extreme bytes, and one frame that is
\* longer than six bytes.
SeqFrames == {MkFrame(16, 244), MkFrame(0, 125), <<0, 0, 0, 0, 26, 244, 255>>,
              MkFrame(79, 255)}

\* Frames shorter than the six bytes the decoders load from, and a full one.
ShortFrames == {<<0, 0, 0, 0>>, <<0, 0, 0, 0, 16>>, <<0, 0, 0, 0, 26>>,
                MkFrame(26, 244)}

NoFrame == <<>>

NoReturn == [kind |-> "None", val |-> 0]

\* An int32_t handed back by a return statement.
Returned(v) == [kind |-> "Value", val |-> v]

NoLine == [text |-> "", args |-> <<>>]

----------------------------------------------------------------------------
(* C semantics used by the file.                                           *)

\* pData[i]: the byte at offset i of the caller's buffer.  Past the end of
\* the buffer the load is undefined behaviour; it yields whatever byte the
\* adjacent memory holds.
Load(pData, i) == IF i < Len(pData) THEN {pData[i + 1]} ELSE Byte

OutOfBounds(pData, i) == i >= Len(pData)

\* C integer division, which truncates toward zero.
CDiv(a, b) == IF a >= 0 THEN a \div b ELSE -((-a) \div b)

\* Conversion of a float (held in tenths) to int32_t: the fraction is
\* discarded, i.e. truncation toward zero.
F32ToInt32Floor(tenths) == tenths \div 10

F32ToInt32(tenths) == CDiv(tenths, 10)

\* printf's "%d".
FmtD(n) == ToString(n)

\* printf's "%.1f" of a float held in tenths (never negative here).
Fmt1F(tenths) == ToString(tenths \div 10) \o "." \o ToString(tenths % 10)

----------------------------------------------------------------------------
(* The decode formulas, one per CalcX, and the Fahrenheit conversion of    *)
(* the two temperature printers.                                           *)

\* Rounds to the nearest rpm instead of truncating.
EngineRPMRounded(A, B) == CDiv((A * 256) + B + 2, 4)

\* An exponential smoothing of the stored value.
EngineRPMSmoothed(A, B) == CDiv(g_EngineRPM + CDiv((A * 256) + B, 4), 2)

\* ((int32_t(A) * 256) + int32_t(B)) / 4
EngineRPMOf(A, B) == CDiv((A * 256) + B, 4)

\* The raw byte, without the reverse sentinel.
GearRaw(A) == A

\* g_Gear = A; if (g_Gear == reverse) g_Gear = -1;
GearOf(A) == IF A = reverse THEN -1 ELSE A

\* g_EngineOilTemp = B
EngineOilTempOf(B) == B

\* g_BatteryIBS = A
BatteryIBSOf(A) == A

\* g_Battery = B / 10.0f, in tenths of a Volt
BatteryOf(B) == B

\* (A * 256 + B)
AtmosphericPressureOf(A, B) == A * 256 + B

\* (A * 256 + B)
BoostPressureOf(A, B) == A * 256 + B

\* Subtracts the offset before halving.
ExternalTempSubFirst(A) == CDiv(A - 80, 2)

\* (A / 2) - 40
ExternalTempOf(A) == CDiv(A, 2) - 40

\* Rounds half-up for every sign (floor of the sum).
FarhFloor(c) == F32ToInt32Floor(18 * c + 325)

\* int32_t Farh = (float(c) * 9.0f / 5.0f) + 32.0f + 0.5f;
FarhOf(c) == F32ToInt32(18 * c + 325)

\* Tests only the forward branch.
GearStrNoReverse(g) == IF g > 0 THEN FmtD(g) ELSE "Neutral"

\* char gearStr[32] = "Neutral"; the if / else if of PrintGear
GearStrOf(g) ==
  IF g = -1 THEN "Reverse"
  ELSE IF g > 0 THEN FmtD(g)
  ELSE "Neutral"

\* Serial.printf(fmt, args): the line written and the arguments passed.
Line(text, args) == [text |-> text, args |-> args]

TempLine(label, c, f) ==
  Line(label \o " = " \o FmtD(c) \o " C (" \o FmtD(f) \o " F)\n", <<c, f>>)

----------------------------------------------------------------------------
(* History kept beside the program state.                                  *)

Known(op, pData) == \E m \in memo : m.op = op /\ m.pData = pData

CalcHistory(op, pData, r, g) ==
  /\ nops' = nops + 1
  /\ lastOp' = [op |-> op, pData |-> pData, repeat |-> Known(op, pData)]
  /\ lastFrame' = [lastFrame EXCEPT ![op] = pData]
  /\ memo' = IF Known(op, pData) THEN memo
             ELSE memo \cup {[op |-> op, pData |-> pData, ret |-> r, g |-> g,
                               at |-> nops + 1]}

PrintHistory(op) ==
  /\ nops' = nops + 1
  /\ lastOp' = [op |-> op, pData |-> NoFrame, repeat |-> FALSE]
  /\ UNCHANGED <<lastFrame, memo>>

----------------------------------------------------------------------------
(* The sequential operations: one action per function of the file.         *)

CalcEngineRPM(pData) ==
  \E A \in Load(pData, 4), B \in Load(pData, 5) :
    /\ g_EngineRPM' = EngineRPMOf(A, B)
    /\ ret' = Returned(g_EngineRPM')
    /\ oob' = (oob \/ OutOfBounds(pData, 5))
    /\ CalcHistory("CalcEngineRPM", pData, ret', g_EngineRPM')
    /\ UNCHANGED <<g_Gear, g_EngineOilTemp, g_BatteryIBS, g_Battery,
                   g_AtmosphericPressure, g_BoostPressure, g_ExternalTemp,
                   out, thr, pool, budget>>

PrintEngineRPM ==
  /\ out' = Line("Engine RPM = " \o FmtD(g_EngineRPM) \o "\n", <<g_EngineRPM>>)
  /\ PrintHistory("PrintEngineRPM")
  /\ UNCHANGED <<globals, ret, oob, thr, pool, budget>>

CalcGear(pData) ==
  \E A \in Load(pData, 4) :
    /\ g_Gear' = GearOf(A)
    /\ ret' = Returned(g_Gear')
    /\ oob' = (oob \/ OutOfBounds(pData, 4))
    /\ CalcHistory("CalcGear", pData, ret', g_Gear')
    /\ UNCHANGED <<g_EngineRPM, g_EngineOilTemp, g_BatteryIBS, g_Battery,
                   g_AtmosphericPressure, g_BoostPressure, g_ExternalTemp,
                   out, thr, pool, budget>>

PrintGear ==
  /\ out' = Line("Current Engaged Gear = " \o GearStrOf(g_Gear) \o "\n",
                 <<GearStrOf(g_Gear)>>)
  /\ PrintHistory("PrintGear")
  /\ UNCHANGED <<globals, ret, oob, thr, pool, budget>>

CalcEngineOilTemp(pData) ==
  \E B \in Load(pData, 5) :
    /\ g_EngineOilTemp' = EngineOilTempOf(B)
    /\ ret' = Returned(g_EngineOilTemp')
    /\ oob' = (oob \/ OutOfBounds(pData, 5))
    /\ CalcHistory("CalcEngineOilTemp", pData, ret', g_EngineOilTemp')
    /\ UNCHANGED <<g_EngineRPM, g_Gear, g_BatteryIBS, g_Battery,
                   g_AtmosphericPressure, g_BoostPressure, g_ExternalTemp,
                   out, thr, pool, budget>>

PrintEngineOilTemp ==
  /\ out' = TempLine("Engine Oil Temperature", g_EngineOilTemp,
                     FarhOf(g_EngineOilTemp))
  /\ PrintHistory("PrintEngineOilTemp")
  /\ UNCHANGED <<globals, ret, oob, thr, pool, budget>>

CalcBatteryIBS(pData) ==
  \E A \in Load(pData, 4) :
    /\ g_BatteryIBS' = BatteryIBSOf(A)
    /\ ret' = Returned(g_BatteryIBS')
    /\ oob' = (oob \/ OutOfBounds(pData, 4))
    /\ CalcHistory("CalcBatteryIBS", pData, ret', g_BatteryIBS')
    /\ UNCHANGED <<g_EngineRPM, g_Gear, g_EngineOilTemp, g_Battery,
                   g_AtmosphericPressure, g_BoostPressure, g_ExternalTemp,
                   out, thr, pool, budget>>

PrintBatteryIBS ==
  /\ out' = Line("Battery IBS = " \o FmtD(g_BatteryIBS) \o " %\n",
                 <<g_BatteryIBS>>)
  /\ PrintHistory("PrintBatteryIBS")
  /\ UNCHANGED <<globals, ret, oob, thr, pool, budget>>

\* The function is declared int32_t: "return g_Battery" converts the float.
CalcBattery(pData) ==
  \E B \in Load(pData, 5) :
    /\ g_Battery' = BatteryOf(B)
    /\ ret' = Returned(F32ToInt32(g_Battery'))
    /\ oob' = (oob \/ OutOfBounds(pData, 5))
    /\ CalcHistory("CalcBattery", pData, ret', g_Battery')
    /\ UNCHANGED <<g_EngineRPM, g_Gear, g_EngineOilTemp, g_BatteryIBS,
                   g_AtmosphericPressure, g_BoostPressure, g_ExternalTemp,
                   out, thr, pool, budget>>

PrintBattery ==
  /\ out' = Line("Battery = " \o Fmt1F(g_Battery) \o " Volts\n", <<g_Battery>>)
  /\ PrintHistory("PrintBattery")
  /\ UNCHANGED <<globals, ret, oob, thr, pool, budget>>

CalcAtmosphericPressure(pData) ==
  \E A \in Load(pData, 4), B \in Load(pData, 5) :
    /\ g_AtmosphericPressure' = AtmosphericPressureOf(A, B)
    /\ ret' = Returned(g_AtmosphericPressure')
    /\ oob' = (oob \/ OutOfBounds(pData, 5))
    /\ CalcHistory("CalcAtmosphericPressure", pData, ret', g_AtmosphericPressure')
    /\ UNCHANGED <<g_EngineRPM, g_Gear, g_EngineOilTemp, g_BatteryIBS, g_Battery,
                   g_BoostPressure, g_ExternalTemp, out, thr, pool, budget>>

PrintAtmosphericPressure ==
  /\ out' = Line("Atmospheric Pressure = " \o FmtD(g_AtmosphericPressure)
                   \o " mbar\n", <<g_AtmosphericPressure>>)
  /\ PrintHistory("PrintAtmosphericPressure")
  /\ UNCHANGED <<globals, ret, oob, thr, pool, budget>>

\* Stores into the other pressure's variable.
CalcBoostPressureIntoAtmospheric(pData) ==
  \E A \in Load(pData, 4), B \in Load(pData, 5) :
    /\ g_AtmosphericPressure' = BoostPressureOf(A, B)
    /\ ret' = Returned(g_AtmosphericPressure')
    /\ oob' = (oob \/ OutOfBounds(pData, 5))
    /\ CalcHistory("CalcBoostPressure", pData, ret', g_BoostPressure)
    /\ UNCHANGED <<g_EngineRPM, g_Gear, g_EngineOilTemp, g_BatteryIBS, g_Battery,
                   g_BoostPressure, g_ExternalTemp, out, thr, pool, budget>>

CalcBoostPressure(pData) ==
  \E A \in Load(pData, 4), B \in Load(pData, 5) :
    /\ g_BoostPressure' = BoostPressureOf(A, B)
    /\ ret' = Returned(g_BoostPressure')
    /\ oob' = (oob \/ OutOfBounds(pData, 5))
    /\ CalcHistory("CalcBoostPressure", pData, ret', g_BoostPressure')
    /\ UNCHANGED <<g_EngineRPM, g_Gear, g_EngineOilTemp, g_BatteryIBS, g_Battery,
                   g_AtmosphericPressure, g_ExternalTemp, out, thr, pool, budget>>

PrintBoostPressure ==
  /\ out' = Line("Boost Pressure = " \o FmtD(g_BoostPressure) \o " mbar\n",
                 <<g_BoostPressure>>)
  /\ PrintHistory("PrintBoostPressure")
  /\ UNCHANGED <<globals, ret, oob, thr, pool, budget>>

CalcExternalTemp(pData) ==
  \E A \in Load(pData, 4) :
    /\ g_ExternalTemp' = ExternalTempOf(A)
    /\ ret' = Returned(g_ExternalTemp')
    /\ oob' = (oob \/ OutOfBounds(pData, 4))
    /\ CalcHistory("CalcExternalTemp", pData, ret', g_ExternalTemp')
    /\ UNCHANGED <<g_EngineRPM, g_Gear, g_EngineOilTemp, g_BatteryIBS, g_Battery,
                   g_AtmosphericPressure, g_BoostPressure, out, thr, pool, budget>>

PrintExternalTemp ==
  /\ out' = TempLine("External Temperature", g_ExternalTemp,
                     FarhOf(g_ExternalTemp))
  /\ PrintHistory("PrintExternalTemp")
  /\ UNCHANGED <<globals, ret, oob, thr, pool, budget>>

----------------------------------------------------------------------------
(* Specifications.                                                         *)

Threads == 1 .. NumThreads

IdleThread == [pc |-> "idle", op |-> "None", pData |-> NoFrame,
               A |-> 0, B |-> 0, gearStr |-> "", ret |-> NoReturn, line |-> NoLine]

\* The state after the static initialisers have run, before any call.
Start(frames, n) ==
  /\ g_EngineRPM = 0
  /\ g_Gear = 0
  /\ g_EngineOilTemp = 0
  /\ g_BatteryIBS = 0
  /\ g_Battery = 0
  /\ g_AtmosphericPressure = 0
  /\ g_BoostPressure = 0
  /\ g_ExternalTemp = 0
  /\ ret = NoReturn
  /\ out = NoLine
  /\ oob = FALSE
  /\ thr = [t \in Threads |-> IdleThread]
  /\ pool = frames
  /\ budget = n
  /\ nops = 0
  /\ lastOp = [op |-> "None", pData |-> NoFrame, repeat |-> FALSE]
  /\ lastFrame = [d \in Decoders |-> NoFrame]
  /\ memo = {}

\* The caller has operations left.
More == nops < budget

\* A single-threaded caller that decodes and prints in any order.
Init == Start(SeqFrames, MaxOps)

Next ==
  \/ \E pData \in pool : More /\ CalcEngineRPM(pData)
  \/ \E pData \in pool : More /\ CalcGear(pData)
  \/ \E pData \in pool : More /\ CalcEngineOilTemp(pData)
  \/ \E pData \in pool : More /\ CalcBatteryIBS(pData)
  \/ \E pData \in pool : More /\ CalcBattery(pData)
  \/ \E pData \in pool : More /\ CalcAtmosphericPressure(pData)
  \/ \E pData \in pool : More /\ CalcBoostPressure(pData)
  \/ \E pData \in pool : More /\ CalcExternalTemp(pData)
  \/ More /\ PrintEngineRPM
  \/ More /\ PrintGear
  \/ More /\ PrintEngineOilTemp
  \/ More /\ PrintBatteryIBS
  \/ More /\ PrintBattery
  \/ More /\ PrintAtmosphericPressure
  \/ More /\ PrintBoostPressure
  \/ More /\ PrintExternalTemp

Spec == Init /\ [][Next]_vars

\* Nothing has been decoded yet.
First == nops = 0

\* Decoder d has just run, and nothing else.
After(d) == nops = 1 /\ lastOp.op = d

\* One frame, any operand bytes, decoded by one decoder and then printed by
\* that decoder's printer.
DecodeInit == \E f \in AllFrames : Start({f}, 2)

DecodeNext ==
  \/ \E pData \in pool : First /\ CalcEngineRPM(pData)
  \/ \E pData \in pool : First /\ CalcGear(pData)
  \/ \E pData \in pool : First /\ CalcEngineOilTemp(pData)
  \/ \E pData \in pool : First /\ CalcBatteryIBS(pData)
  \/ \E pData \in pool : First /\ CalcBattery(pData)
  \/ \E pData \in pool : First /\ CalcAtmosphericPressure(pData)
  \/ \E pData \in pool : First /\ CalcBoostPressure(pData)
  \/ \E pData \in pool : First /\ CalcExternalTemp(pData)
  \/ After("CalcEngineRPM") /\ PrintEngineRPM
  \/ After("CalcGear") /\ PrintGear
  \/ After("CalcEngineOilTemp") /\ PrintEngineOilTemp
  \/ After("CalcBatteryIBS") /\ PrintBatteryIBS
  \/ After("CalcBattery") /\ PrintBattery
  \/ After("CalcAtmosphericPressure") /\ PrintAtmosphericPressure
  \/ After("CalcBoostPressure") /\ PrintBoostPressure
  \/ After("CalcExternalTemp") /\ PrintExternalTemp

SpecDecode == DecodeInit /\ [][DecodeNext]_vars

\* A caller that does not check the length of the frame it passes.
ShortInit == Start(ShortFrames, ShortOps)

SpecShort == ShortInit /\ [][Next]_vars

----------------------------------------------------------------------------
(* Calls made from several threads with no coordination.  The statics are  *)
(* plain (non-atomic, non-volatile) words, so every statement that touches *)
(* one is a separate load or store that other threads' statements can come *)
(* between; the steps below are the statements of CalcEngineRPM, CalcGear  *)
(* and PrintGear in source order, each thread keeping its locals in thr.   *)

ConcFrames == {MkFrame(16, 244), MkFrame(5, 0), MkFrame(0, 125)}

At(t, label) == thr[t].pc = label

Goto(t, label) == [thr EXCEPT ![t].pc = label]

\* What a concurrent step leaves alone besides the statics it names.
ConcFrame == UNCHANGED <<g_EngineOilTemp, g_BatteryIBS, g_Battery,
                         g_AtmosphericPressure, g_BoostPressure, g_ExternalTemp,
                         ret, out, oob, pool, budget, nops, lastOp, lastFrame, memo>>

\* Thread t enters one of the three functions.
Invoke(t) ==
  /\ At(t, "idle")
  /\ \/ \E f \in pool :
          thr' = [thr EXCEPT ![t].pc = "rpm12", ![t].op = "CalcEngineRPM",
                             ![t].pData = f]
     \/ \E f \in pool :
          thr' = [thr EXCEPT ![t].pc = "cg34", ![t].op = "CalcGear",
                             ![t].pData = f]
     \/ thr' = [thr EXCEPT ![t].pc = "pg48", ![t].op = "PrintGear"]
  /\ UNCHANGED <<g_EngineRPM, g_Gear>>
  /\ ConcFrame

\* uint8_t A = pData[4]; uint8_t B = pData[5];
CalcEngineRPM_L12(t) ==
  /\ At(t, "rpm12")
  /\ \E A \in Load(thr[t].pData, 4), B \in Load(thr[t].pData, 5) :
       thr' = [thr EXCEPT ![t].pc = "rpm14", ![t].A = A, ![t].B = B]
  /\ UNCHANGED <<g_EngineRPM, g_Gear>>
  /\ ConcFrame

\* g_EngineRPM = ((int32_t(A) * 256) + int32_t(B)) / 4;
CalcEngineRPM_L14(t) ==
  /\ At(t, "rpm14")
  /\ g_EngineRPM' = EngineRPMOf(thr[t].A, thr[t].B)
  /\ thr' = Goto(t, "rpm15")
  /\ UNCHANGED g_Gear
  /\ ConcFrame

\* return g_EngineRPM;
CalcEngineRPM_L15(t) ==
  /\ At(t, "rpm15")
  /\ thr' = [thr EXCEPT ![t].pc = "done", ![t].ret = Returned(g_EngineRPM)]
  /\ UNCHANGED <<g_EngineRPM, g_Gear>>
  /\ ConcFrame

\* uint8_t A = pData[4];
CalcGear_L34(t) ==
  /\ At(t, "cg34")
  /\ \E A \in Load(thr[t].pData, 4) :
       thr' = [thr EXCEPT ![t].pc = "cg35", ![t].A = A]
  /\ UNCHANGED <<g_EngineRPM, g_Gear>>
  /\ ConcFrame

\* g_Gear = A;
CalcGear_L35(t) ==
  /\ At(t, "cg35")
  /\ g_Gear' = thr[t].A
  /\ thr' = Goto(t, "cg38")
  /\ UNCHANGED g_EngineRPM
  /\ ConcFrame

\* if (g_Gear == reverse)
CalcGear_L38(t) ==
  /\ At(t, "cg38")
  /\ thr' = Goto(t, IF g_Gear = reverse THEN "cg40" ELSE "cg43")
  /\ UNCHANGED <<g_EngineRPM, g_Gear>>
  /\ ConcFrame

\* g_Gear = -1;
CalcGear_L40(t) ==
  /\ At(t, "cg40")
  /\ g_Gear' = -1
  /\ thr' = Goto(t, "cg43")
  /\ UNCHANGED g_EngineRPM
  /\ ConcFrame

\* return g_Gear;
CalcGear_L43(t) ==
  /\ At(t, "cg43")
  /\ thr' = [thr EXCEPT ![t].pc = "done", ![t].ret = Returned(g_Gear)]
  /\ UNCHANGED <<g_EngineRPM, g_Gear>>
  /\ ConcFrame

\* char gearStr[32] = "Neutral";
PrintGear_L48(t) ==
  /\ At(t, "pg48")
  /\ thr' = [thr EXCEPT ![t].pc = "pg50", ![t].gearStr = "Neutral"]
  /\ UNCHANGED <<g_EngineRPM, g_Gear>>
  /\ ConcFrame

\* if (g_Gear == -1)
PrintGear_L50(t) ==
  /\ At(t, "pg50")
  /\ thr' = Goto(t, IF g_Gear = -1 THEN "pg52" ELSE "pg54")
  /\ UNCHANGED <<g_EngineRPM, g_Gear>>
  /\ ConcFrame

\* sprintf(gearStr, "Reverse");
PrintGear_L52(t) ==
  /\ At(t, "pg52")
  /\ thr' = [thr EXCEPT ![t].pc = "pg59", ![t].gearStr = "Reverse"]
  /\ UNCHANGED <<g_EngineRPM, g_Gear>>
  /\ ConcFrame

\* else if (g_Gear > 0)
PrintGear_L54(t) ==
  /\ At(t, "pg54")
  /\ thr' = Goto(t, IF g_Gear > 0 THEN "pg56" ELSE "pg59")
  /\ UNCHANGED <<g_EngineRPM, g_Gear>>
  /\ ConcFrame

\* sprintf(gearStr, "%d", g_Gear);
PrintGear_L56(t) ==
  /\ At(t, "pg56")
  /\ thr' = [thr EXCEPT ![t].pc = "pg59", ![t].gearStr = FmtD(g_Gear)]
  /\ UNCHANGED <<g_EngineRPM, g_Gear>>
  /\ ConcFrame

\* Serial.printf("Current Engaged Gear = %s\n", gearStr);
PrintGear_L59(t) ==
  /\ At(t, "pg59")
  /\ thr' = [thr EXCEPT ![t].pc = "done",
                        ![t].line = Line("Current Engaged Gear = "
                                           \o thr[t].gearStr \o "\n",
                                         <<thr[t].gearStr>>)]
  /\ UNCHANGED <<g_EngineRPM, g_Gear>>
  /\ ConcFrame

ConcInit == Start(ConcFrames, 0)

ConcNext ==
  \E t \in Threads :
    \/ Invoke(t)
    \/ CalcEngineRPM_L12(t)
    \/ CalcEngineRPM_L14(t)
    \/ CalcEngineRPM_L15(t)
    \/ CalcGear_L34(t)
    \/ CalcGear_L35(t)
    \/ CalcGear_L38(t)
    \/ CalcGear_L40(t)
    \/ CalcGear_L43(t)
    \/ PrintGear_L48(t)
    \/ PrintGear_L50(t)
    \/ PrintGear_L52(t)
    \/ PrintGear_L54(t)
    \/ PrintGear_L56(t)
    \/ PrintGear_L59(t)

SpecConc == ConcInit /\ [][ConcNext]_vars

----------------------------------------------------------------------------
(* Properties.  The operand bytes of a frame, and the static of a decoder. *)

ByteA(f) == f[5]

ByteB(f) == f[6]

Decoded(d) == lastOp.op = d /\ Len(lastOp.pData) >= 6

StaticOf(d) ==
  CASE d = "CalcEngineRPM" -> g_EngineRPM
    [] d = "CalcGear" -> g_Gear
    [] d = "CalcEngineOilTemp" -> g_EngineOilTemp
    [] d = "CalcBatteryIBS" -> g_BatteryIBS
    [] d = "CalcBattery" -> g_Battery
    [] d = "CalcAtmosphericPressure" -> g_AtmosphericPressure
    [] d = "CalcBoostPressure" -> g_BoostPressure
    [] d = "CalcExternalTemp" -> g_ExternalTemp

\* The quotient law of CalcEngineRPM: the value returned for a frame of at
\* least 6 bytes is the q with 4q <= A*256+B < 4q+4, in 0 .. 16383.
C1_Quotient ==
  Decoded("CalcEngineRPM") =>
    LET x == ByteA(lastOp.pData) * 256 + ByteB(lastOp.pData) IN
      /\ ret.kind = "Value"
      /\ 4 * ret.val <= x
      /\ x < 4 * ret.val + 4
      /\ ret.val \in 0 .. 16383

\* C1 as stated: for every frame of at least 6 bytes, CalcEngineRPM returns
\* (A*256 + B) div 4 with A = frame[4], B = frame[5] (truncated, not
\* rounded), always in 0 .. 16383, and A = 26, B = 244 gives 1718.
C1_AsStated ==
  /\ C1_Quotient
  /\ (Decoded("CalcEngineRPM") /\ lastOp.pData = MkFrame(26, 244)) =>
       ret.val = 1718

\* C1, amended: for every frame of at least 6 bytes, CalcEngineRPM returns
\* (A*256 + B) div 4 with A = frame[4], B = frame[5] (truncated, not
\* rounded), always in 0 .. 16383, and A = 26, B = 244 gives 1725
\* (6900 div 4).
C1_EngineRPM ==
  /\ C1_Quotient
  /\ (Decoded("CalcEngineRPM") /\ lastOp.pData = MkFrame(26, 244)) =>
       ret.val = 1725

C1_Witness ==
  /\ Decoded("CalcEngineRPM")
  /\ lastOp.pData = MkFrame(26, 244)
  /\ ret = Returned(1725)

\* C2: for every frame of at least 6 bytes, CalcGear returns -1 (Reverse)
\* exactly when frame[4] is 0x10, 0 (Neutral) exactly when frame[4] is 0, and
\* frame[4] itself, a positive value, for every other byte; so it never
\* returns 16, and the result depends on frame[4] alone, not on frame[5].
C2_Gear ==
  Decoded("CalcGear") =>
    LET raw == ByteA(lastOp.pData) IN
      /\ ret.kind = "Value"
      /\ (ret.val = -1 <=> raw = 16)
      /\ (ret.val = 0 <=> raw = 0)
      /\ (raw \notin {0, 16} => ret.val = raw /\ ret.val > 0)
      /\ ret.val # 16

C2_Witness ==
  /\ Decoded("CalcGear")
  /\ lastOp.pData = MkFrame(16, 244)
  /\ ret = Returned(-1)

\* C3: decoding a frame shorter than 6 bytes fails with a ShortFrame error
\* and never loads a byte past the end of the buffer.
C3_ShortFrameRejected ==
  (lastOp.op \in Decoders /\ Len(lastOp.pData) < 6) =>
    (ret.kind = "ShortFrame" /\ ~oob)

\* What a call returns when nothing else runs beside it.
AloneReturn(op, f) ==
  IF op = "CalcGear" THEN Returned(GearOf(ByteA(f)))
  ELSE Returned(EngineRPMOf(ByteA(f), ByteB(f)))

\* The gear texts of the finished results: the initial value and what
\* CalcGear leaves for each frame.
FinishedGearStrs ==
  {GearStrOf(0)} \cup {GearStrOf(GearOf(ByteA(f))) : f \in pool}

\* C4: under every interleaving of uncoordinated calls, each finished Calc
\* call has returned what it returns when run alone on its own frame, and
\* each finished PrintGear has printed the finished result of some decode
\* (never the raw 16 that stands for Reverse).
C4_ThreadsIsolated ==
  \A t \in Threads :
    thr[t].pc = "done" =>
      /\ thr[t].op \in {"CalcGear", "CalcEngineRPM"} =>
           thr[t].ret = AloneReturn(thr[t].op, thr[t].pData)
      /\ thr[t].op = "PrintGear" => thr[t].gearStr \in FinishedGearStrs

\* C5: for every frame of at least 6 bytes, CalcBattery hands its caller
\* B / 10 Volts to one decimal, B = frame[5]: in tenths of a Volt the
\* returned value is exactly B (125 gives 12.5).
C5_BatteryTenths ==
  Decoded("CalcBattery") =>
    /\ ret.kind = "Value"
    /\ ret.val * 10 = ByteB(lastOp.pData)

\* C6: for every frame of at least 6 bytes, CalcExternalTemp returns
\* (A div 2) - 40, A = frame[4], halving first and subtracting afterwards:
\* twice (result + 40) is A or A - 1, so 2k and 2k+1 give the same result;
\* the result is in -40 .. 87; A = 100 gives 10 and A = 26 gives -27.
C6_ExternalTemp ==
  Decoded("CalcExternalTemp") =>
    LET A == ByteA(lastOp.pData) IN
      /\ ret.kind = "Value"
      /\ 2 * (ret.val + 40) \in {A, A - 1}
      /\ ret.val \in -40 .. 87
      /\ (A = 100 => ret.val = 10)
      /\ (A = 26 => ret.val = -27)

\* A = 79: halving first gives -1, subtracting first would give 0.
C6_Witness ==
  /\ Decoded("CalcExternalTemp")
  /\ ByteA(lastOp.pData) = 79
  /\ ret = Returned(-1)

\* A call of a decoder with a frame it has decoded before returns what the
\* first such call returned and leaves its static as that call left it.
C7_SameAsFirst ==
  lastOp.op \in Decoders =>
    \A m \in memo :
      (m.op = lastOp.op /\ m.pData = lastOp.pData) =>
        (ret = m.ret /\ StaticOf(lastOp.op) = m.g)

\* A call that repeats the call before it changes no static and returns the
\* same value.
C7_RepeatChangesNothing ==
  [][(/\ nops' = nops + 1
      /\ lastOp.op \in Decoders
      /\ lastOp'.op = lastOp.op
      /\ lastOp'.pData = lastOp.pData)
       => (globals' = globals /\ ret' = ret)]_vars

\* C7: idempotence.  Calling the same decoder twice with the same frame
\* returns identical results whatever calls came before the first or between
\* the two, the decoder's static after the second call is what it was after
\* the first, and a call directly repeated leaves the whole state as the
\* first call left it.
C7_Idempotent == []C7_SameAsFirst /\ C7_RepeatChangesNothing

\* CalcEngineRPM with one frame, then with another, then with the first again.
C7_Witness ==
  /\ nops = 3
  /\ lastOp.op = "CalcEngineRPM"
  /\ lastOp.repeat
  /\ \E m1 \in memo, m2 \in memo :
       /\ m1.op = "CalcEngineRPM" /\ m1.at = 1 /\ m1.pData = lastOp.pData
       /\ m2.op = "CalcEngineRPM" /\ m2.at = 2 /\ m2.ret # m1.ret
       /\ ret = m1.ret

PressureIn(f) == IF f = NoFrame THEN 0 ELSE ByteA(f) * 256 + ByteB(f)

\* C8: for every byte pair (A, B), CalcAtmosphericPressure and
\* CalcBoostPressure yield the same value A*256 + B, in 0 .. 65535; each
\* records it in its own static, so g_AtmosphericPressure always holds the
\* pressure of the frame CalcAtmosphericPressure decoded last and
\* g_BoostPressure that of the frame CalcBoostPressure decoded last: neither
\* overwrites the other's.
C8_Pressures ==
  /\ nops = 0 =>
       \A A \in Byte, B \in Byte :
         /\ AtmosphericPressureOf(A, B) = A * 256 + B
         /\ BoostPressureOf(A, B) = A * 256 + B
  /\ (Decoded("CalcAtmosphericPressure") \/ Decoded("CalcBoostPressure")) =>
       /\ ret = Returned(PressureIn(lastOp.pData))
       /\ ret.val \in 0 .. 65535
  /\ g_AtmosphericPressure = PressureIn(lastFrame["CalcAtmosphericPressure"])
  /\ g_BoostPressure = PressureIn(lastFrame["CalcBoostPressure"])

\* Atmospheric pressure decoded first, boost pressure from another frame after.
C8_Witness ==
  /\ Decoded("CalcBoostPressure")
  /\ lastFrame["CalcAtmosphericPressure"] = MkFrame(16, 244)
  /\ lastFrame["CalcBoostPressure"] = MkFrame(79, 255)
  /\ g_AtmosphericPressure = 4340
  /\ g_BoostPressure = 20479

\* The integer nearest to c*9/5 + 32 (a tie cannot happen: 18c + 320 is even).
NearestFahrenheit(c) ==
  CHOOSE n \in -60 .. 500 : (10 * n) - (18 * c + 320) \in -4 .. 4

\* C9: the Fahrenheit value printed for a stored Celsius value c is
\* c*9/5 + 32.5 truncated toward zero.  For c >= 0 (0 .. 255 for oil,
\* 0 .. 87 outside) it is the floor of that sum, which is c*9/5 + 32 rounded
\* to nearest; for c in -40 .. -1 it is the truncation, which differs from
\* the rounded value exactly when c*9/5 + 32.5 is negative (-40 C prints
\* -39 F).  s below is ten times c*9/5 + 32.5.
C9_Fahrenheit ==
  lastOp.op \in {"PrintEngineOilTemp", "PrintExternalTemp"} =>
    LET oil == lastOp.op = "PrintEngineOilTemp"
        c == out.args[1]
        F == out.args[2]
        s == 18 * c + 325
    IN /\ c = (IF oil THEN g_EngineOilTemp ELSE g_ExternalTemp)
       /\ c \in (IF oil THEN 0 .. 255 ELSE -40 .. 87)
       /\ out.text = (IF oil THEN "Engine Oil Temperature"
                             ELSE "External Temperature")
                       \o " = " \o ToString(c) \o " C (" \o ToString(F) \o " F)\n"
       /\ s >= 0 => (10 * F <= s /\ s < 10 * F + 10)
       /\ c >= 0 => F = NearestFahrenheit(c)
       /\ s < 0 => (10 * F - 10 < s /\ s <= 10 * F)
       /\ (F # NearestFahrenheit(c)) <=> (s < 0)
       /\ (c = -40 => F = -39)

C9_Witness ==
  /\ lastOp.op = "PrintExternalTemp"
  /\ g_ExternalTemp = -40
  /\ out.args = <<-40, -39>>

\* The value the decode table gives decoder d for frame f; 0 before any
\* frame (battery in tenths of a Volt).
TableValue(d, f) ==
  IF f = NoFrame THEN 0
  ELSE CASE d = "CalcEngineRPM" -> (ByteA(f) * 256 + ByteB(f)) \div 4
         [] d = "CalcGear" -> IF ByteA(f) = 16 THEN -1 ELSE ByteA(f)
         [] d = "CalcEngineOilTemp" -> ByteB(f)
         [] d = "CalcBatteryIBS" -> ByteA(f)
         [] d = "CalcBattery" -> ByteB(f)
         [] d = "CalcAtmosphericPressure" -> ByteA(f) * 256 + ByteB(f)
         [] d = "CalcBoostPressure" -> ByteA(f) * 256 + ByteB(f)
         [] d = "CalcExternalTemp" -> (ByteA(f) \div 2) - 40

GearText(f) ==
  IF f = NoFrame \/ ByteA(f) = 0 THEN "Neutral"
  ELSE IF ByteA(f) = 16 THEN "Reverse"
  ELSE ToString(ByteA(f))

\* The line PrintX has to write when v is the value of its quantity and f the
\* frame it came from.
Rendering(op, v, f) ==
  CASE op = "PrintEngineRPM" -> "Engine RPM = " \o ToString(v) \o "\n"
    [] op = "PrintGear" -> "Current Engaged Gear = " \o GearText(f) \o "\n"
    [] op = "PrintEngineOilTemp" ->
         "Engine Oil Temperature = " \o ToString(v) \o " C ("
           \o ToString(out.args[2]) \o " F)\n"
    [] op = "PrintBatteryIBS" -> "Battery IBS = " \o ToString(v) \o " %\n"
    [] op = "PrintBattery" ->
         "Battery = " \o ToString(v \div 10) \o "." \o ToString(v % 10)
           \o " Volts\n"
    [] op = "PrintAtmosphericPressure" ->
         "Atmospheric Pressure = " \o ToString(v) \o " mbar\n"
    [] op = "PrintBoostPressure" -> "Boost Pressure = " \o ToString(v) \o " mbar\n"
    [] op = "PrintExternalTemp" ->
         "External Temperature = " \o ToString(v) \o " C ("
           \o ToString(out.args[2]) \o " F)\n"

DecoderOf(op) ==
  CASE op = "PrintEngineRPM" -> "CalcEngineRPM"
    [] op = "PrintGear" -> "CalcGear"
    [] op = "PrintEngineOilTemp" -> "CalcEngineOilTemp"
    [] op = "PrintBatteryIBS" -> "CalcBatteryIBS"
    [] op = "PrintBattery" -> "CalcBattery"
    [] op = "PrintAtmosphericPressure" -> "CalcAtmosphericPressure"
    [] op = "PrintBoostPressure" -> "CalcBoostPressure"
    [] op = "PrintExternalTemp" -> "CalcExternalTemp"

Printers == {"PrintEngineRPM", "PrintGear", "PrintEngineOilTemp",
             "PrintBatteryIBS", "PrintBattery", "PrintAtmosphericPressure",
             "PrintBoostPressure", "PrintExternalTemp"}

\* C10: after any sequence of sequential calls, every static g_X holds the
\* value of the frame its own CalcX decoded last, or 0 if CalcX was never
\* called (no other CalcY and no PrintY has changed it), and a PrintX that
\* has just run has written that value; for gear the text is "Reverse"
\* exactly when the last decoded frame[4] was 0x10, "Neutral" exactly when it
\* was 0 or nothing was decoded, and the decimal number otherwise.
C10_LastValues ==
  /\ \A d \in Decoders : StaticOf(d) = TableValue(d, lastFrame[d])
  /\ lastOp.op \in Printers =>
       LET d == DecoderOf(lastOp.op) IN
         out.text = Rendering(lastOp.op, TableValue(d, lastFrame[d]), lastFrame[d])

\* Reverse decoded, another decoder run on a frame with another byte 4, then
\* PrintGear.
C10_Witness ==
  /\ nops = 3
  /\ lastOp.op = "PrintGear"
  /\ lastFrame["CalcGear"] = MkFrame(16, 244)
  /\ lastFrame["CalcBatteryIBS"] = MkFrame(79, 255)
  /\ out.text = "Current Engaged Gear = Reverse\n"

====
